---- MODULE Spec2Model ----
(***************************************************************************)
(* PSAW: a client of the Searchanise HTTP API (src/psaw/__init__.py,       *)
(* src/psaw/decorators.py), modelled as it runs on Python 2.7 (setup.py    *)
(* lists 2.6 and 2.7; the auto-numbered '{}' format fields and             *)
(* dict.iteritems the code uses both exist on 2.7 only).  The HTTP         *)
(* transport and the XML library are collaborators: a request is recorded  *)
(* when it is handed to `requests`, the server's answer is an input of the *)
(* action, and an XML element is the record of its attributes, its text    *)
(* and its `value` children.  Answers that do not parse and transport      *)
(* failures are left out: every answer has a root tag.                     *)
(***************************************************************************)
EXTENDS Integers, Sequences, FiniteSets, TLC

\* ------------------------------------------------------------------ bounds
MaxQueue == 2      \* longest product queue explored
MaxItems == 2      \* longest multi-valued custom field explored
MaxCalls == 3      \* restrict_by / query_by calls followed on one query

\* --------------------------------------------------------------- constants
REQUIRED_ENTRY_FIELDS == {"id", "title", "summary", "link"}
OPTIONAL_ENTRY_FIELDS == {"price", "quantity", "product_code", "image_link"}
STANDARD_ENTRY_FIELDS == REQUIRED_ENTRY_FIELDS \cup OPTIONAL_ENTRY_FIELDS

\* ------------------------------------------------------------------ values
\* A Python value, as far as the library looks at it.  kind is the Python
\* type: "None", "bool", "num" (int), "text" (str/unicode), "list"
\* (list/tuple of scalars) or "dict" (the descriptor dictionary of the
\* _build_product_entry docstring).  Every value has the same fields so that
\* any two can be compared.
NoDesc == [type |-> "", values |-> <<>>, text_search |-> FALSE, weight |-> 0]

PyNone == [kind |-> "None", s |-> "", n |-> 0, items |-> <<>>, desc |-> NoDesc]

PyBool(b) ==
    [kind |-> "bool", s |-> "", n |-> IF b THEN 1 ELSE 0, items |-> <<>>,
     desc |-> NoDesc]

PyNum(n) == [kind |-> "num", s |-> "", n |-> n, items |-> <<>>, desc |-> NoDesc]

PyText(s) == [kind |-> "text", s |-> s, n |-> 0, items |-> <<>>, desc |-> NoDesc]

PyList(items) ==
    [kind |-> "list", s |-> "", n |-> 0, items |-> items, desc |-> NoDesc]

PyDict(desc) ==
    [kind |-> "dict", s |-> "", n |-> 0, items |-> <<>>, desc |-> desc]

\* The keys of a descriptor dictionary, in the order iterating it yields them
\* (fixed by the interpreter's hashing; nothing below depends on the order).
DescKeys == <<"type", "values", "text_search", "weight">>

\* What `for value in custom_field_value` yields, for the values that can
\* be iterated: a list yields its items, a dictionary yields its keys.
IterItems(v) ==
    IF v.kind = "dict"
    THEN [i \in 1..Len(DescKeys) |-> PyText(DescKeys[i])]
    ELSE v.items

\* Whether iterating the value raises TypeError (None, bool and int do).
NotIterable(v) == v.kind \in {"None", "bool", "num"}

\* str(element_value) for the values `element_value + 0.0` accepts.
PyStr(v) ==
    IF v.kind = "bool" THEN (IF v.n = 1 THEN "True" ELSE "False")
    ELSE ToString(v.n)

\* A sanitized text: what is assigned to an element's .text, either a plain
\* string or a CDATA section wrapping the text.
Plain(s) == [cdata |-> FALSE, s |-> s]

CDATA(s) == [cdata |-> TRUE, s |-> s]

\* _sanitize_text: None and False give the empty text, a number str() of it,
\* a text a CDATA section.
_sanitize_text(element_value) ==
    IF \/ element_value.kind = "None"
       \/ (element_value.kind = "bool" /\ element_value.n = 0)
    THEN Plain("")
    ELSE IF element_value.kind \in {"bool", "num"}
         THEN Plain(PyStr(element_value))
         ELSE CDATA(element_value.s)

\* A dictionary with no keys.
EmptyMap == [x \in {} |-> x]

\* ---------------------------------------------------------------- elements
\* An element of the cs namespace named `attribute`: attrs maps attribute
\* names to strings, text holds the text if one was set, children holds the
\* texts of the `value` sub-elements in document order.
Element(attrs) == [attrs |-> attrs, text |-> <<>>, children |-> <<>>]

\* Parameters of a custom field, as a dictionary: has is the set of keys
\* present, the other fields are the values of the keys that are present.
FieldParams(has, text_search, weight, type) ==
    [has |-> has, text_search |-> text_search, weight |-> weight, type |-> type]

EmptyParams == FieldParams({}, FALSE, 0, "")

\* The body of the loop of _prebuild_custom_fields_elements for one field:
\* the element built, or a KeyError when text_search is set without weight.
PrebuildRaises(params) ==
    /\ "text_search" \in params.has
    /\ params.text_search
    /\ "weight" \notin params.has

PrebuildElement(custom_field_name, params) ==
    LET searched == "text_search" \in params.has /\ params.text_search
        typed == "type" \in params.has /\ params.type # ""
        names == {"name"}
                   \cup (IF searched THEN {"text_search", "weight"} ELSE {})
                   \cup (IF typed THEN {"type"} ELSE {})
    IN Element(
         [a \in names |->
            CASE a = "name" -> custom_field_name
              [] a = "text_search" -> "Y"
              [] a = "weight" -> ToString(params.weight)
              [] OTHER -> params.type])

\* _prebuild_custom_fields_elements: custom_fields_params maps field names to
\* parameters, order is the order in which the dictionary yields them.  The
\* result is the cache afterwards and whether a KeyError was raised (the
\* fields before the raising one are stored, it and the later ones are not).
StoreElement(cache, name, el) ==
    [n \in DOMAIN cache \cup {name} |-> IF n = name THEN el ELSE cache[n]]

RECURSIVE PrebuildFrom(_, _, _, _)
PrebuildFrom(cache, custom_fields_params, order, i) ==
    IF i > Len(order) THEN [raised |-> "", cache |-> cache]
    ELSE IF PrebuildRaises(custom_fields_params[order[i]])
    THEN [raised |-> "KeyError", cache |-> cache]
    ELSE PrebuildFrom(
           StoreElement(cache, order[i],
                        PrebuildElement(order[i], custom_fields_params[order[i]])),
           custom_fields_params, order, i + 1)

_prebuild_custom_fields_elements(cache, custom_fields_params, order) ==
    PrebuildFrom(cache, custom_fields_params, order, 1)

\* Lines 70-71: a field not in the cache yet gets a bare element.
WithBareElement(cache, custom_field_name) ==
    IF custom_field_name \in DOMAIN cache THEN cache
    ELSE _prebuild_custom_fields_elements(
           cache, custom_field_name :> EmptyParams, <<custom_field_name>>).cache

\* A reference to an element: shared tells whether writing through it
\* changes the cached element.  copy.deepcopy hands out the same content in
\* a new object, which is not shared.
Ref(el, shared) == [el |-> el, shared |-> shared]

\* A bug a maintainer could write: the cached element itself is returned.
GetPrebuiltNoCopy(cache, custom_field_name) ==
    [cache |-> WithBareElement(cache, custom_field_name),
     ref |-> Ref(WithBareElement(cache, custom_field_name)[custom_field_name],
                 TRUE)]

_get_prebuilt_custom_field_element(cache, custom_field_name) ==
    [cache |-> WithBareElement(cache, custom_field_name),
     ref |-> Ref(WithBareElement(cache, custom_field_name)[custom_field_name],
                 FALSE)]

\* The `value` sub-elements appended for the items of an iterable.
ValueChildren(items) == [i \in 1..Len(items) |-> _sanitize_text(items[i])]

\* The characters of a text, as iterating it yields them.
Chars(s) == [i \in 1..Len(s) |-> PyText("?")]

\* A bug a maintainer could write: the string test left out, so that a text
\* is iterated character by character like any other sequence.
FillNoStringTest(el, custom_field_value) ==
    IF NotIterable(custom_field_value)
    THEN [el EXCEPT !.text = <<_sanitize_text(custom_field_value)>>]
    ELSE IF custom_field_value.kind = "text"
    THEN [el EXCEPT !.children = @ \o ValueChildren(Chars(custom_field_value.s))]
    ELSE [el EXCEPT !.children = @ \o ValueChildren(IterItems(custom_field_value))]

\* _build_custom_field, lines 97-107: the element with the value written
\* into it.
Fill(el, custom_field_value) ==
    IF custom_field_value.kind = "text"
    THEN [el EXCEPT !.text = <<_sanitize_text(custom_field_value)>>]
    ELSE IF NotIterable(custom_field_value)
    THEN [el EXCEPT !.text = <<_sanitize_text(custom_field_value)>>]
    ELSE [el EXCEPT !.children = @ \o ValueChildren(IterItems(custom_field_value))]

\* What writing `el` through the reference leaves: a shared reference
\* changes the cached element too.
Written(got, custom_field_name, el) ==
    [cache |-> IF got.ref.shared
               THEN [got.cache EXCEPT ![custom_field_name] = el]
               ELSE got.cache,
     el |-> el]

BuildThrough(got, custom_field_name, custom_field_value) ==
    Written(got, custom_field_name, Fill(got.ref.el, custom_field_value))

\* _build_custom_field: the element of one custom field of one product, and
\* the cache afterwards.
_build_custom_field(cache, custom_field_name, custom_field_value) ==
    BuildThrough(_get_prebuilt_custom_field_element(cache, custom_field_name),
                 custom_field_name, custom_field_value)

\* ----------------------------------------------------------------- entries
\* A product record is a function from its keys to values.  An entry is the
\* record of its standard children (by field: the tag, the text if any, the
\* href if any) and of its custom field elements (by field).
StdChild(field, v) ==
    IF field = "link"
    THEN [tag |-> field, text |-> <<>>, href |-> <<v.s>>]
    ELSE [tag |-> IF field \in OPTIONAL_ENTRY_FIELDS THEN "cs:" \o field ELSE field,
          text |-> <<_sanitize_text(v)>>, href |-> <<>>]

\* The loop over keys_set - STANDARD_ENTRY_FIELDS: every custom field is
\* built against the cache the earlier ones left.  A field touches only its
\* own cache slot, so the order of the set does not show in the result.
WithField(built, field, one) ==
    [cache |-> one.cache,
     custom |-> [f \in DOMAIN built.custom \cup {field} |->
                   IF f = field THEN one.el ELSE built.custom[f]]]

AddField(built, field, value) ==
    WithField(built, field, _build_custom_field(built.cache, field, value))

RECURSIVE BuildCustomFields(_, _, _)
NextField(cache, product_dict, fields, field) ==
    AddField(BuildCustomFields(cache, product_dict, fields \ {field}),
             field, product_dict[field])

BuildCustomFields(cache, product_dict, fields) ==
    IF fields = {} THEN [cache |-> cache, custom |-> EmptyMap]
    ELSE NextField(cache, product_dict, fields, CHOOSE f \in fields : TRUE)

\* A bug a maintainer could write: the test passes as soon as one required
\* field is present.
RequiredFieldsAny(keys_set) == REQUIRED_ENTRY_FIELDS \cap keys_set # {}

\* `REQUIRED_ENTRY_FIELDS <= keys_set`
RequiredFieldsPresent(keys_set) == REQUIRED_ENTRY_FIELDS \subseteq keys_set

\* _build_product_entry: raised is "" or the exception, entries holds the
\* entry when one was built, cache is the template cache afterwards.
EntryOf(product_dict, built) ==
    [raised |-> "", cache |-> built.cache,
     entries |-> <<[std |-> [f \in DOMAIN product_dict \cap STANDARD_ENTRY_FIELDS
                               |-> StdChild(f, product_dict[f])],
                    custom |-> built.custom]>>]

_build_product_entry(cache, product_dict) ==
    IF ~RequiredFieldsPresent(DOMAIN product_dict)
    THEN [raised |-> "PSAWException", cache |-> cache, entries |-> <<>>]
    ELSE EntryOf(product_dict,
                 BuildCustomFields(cache, product_dict,
                                   DOMAIN product_dict \ STANDARD_ENTRY_FIELDS))

\* The loop of update over the queue: the entries appended to the feed, in
\* order, until one product raises.
RECURSIVE BuildFeed(_, _, _, _)
FeedStep(one, queue, i, entries) ==
    IF one.raised # ""
    THEN [raised |-> one.raised, cache |-> one.cache, entries |-> entries]
    ELSE BuildFeed(one.cache, queue, i + 1, entries \o one.entries)

BuildFeed(cache, queue, i, entries) ==
    IF i > Len(queue) THEN [raised |-> "", cache |-> cache, entries |-> entries]
    ELSE FeedStep(_build_product_entry(cache, queue[i]), queue, i, entries)

\* ------------------------------------------------------------- credentials
\* Python None, for a key that was never given.
None == "<None>"

\* A bug a maintainer could write: `if self.private_key is None`, which lets
\* the empty string through.
KeyIsNotNone(key) == key # None

\* decorators.py: `if not self.private_key: raise`; the method runs when this
\* holds.
requires_private_key(key) == key # None /\ key # ""

\* decorators.py: `if not self.api_key: raise`.
requires_api_key(key) == key # None /\ key # ""

\* ------------------------------------------------------------------- state
VARIABLES
    api_key,                          \* Searchanise.api_key
    private_key,                      \* Searchanise.private_key
    max_products_per_feed,            \* Searchanise.max_products_per_feed
    _products_queue,                  \* Searchanise._products_queue
    _prebuilt_custom_field_elements,  \* Searchanise._prebuilt_custom_field_elements
    query,                            \* the SearchaniseQuery made last, if any
    registered,                       \* history: the parameters last stored per field
    calls,                            \* history: the filter calls made on query
    last                              \* history: the call made last and what it did

vars == <<api_key, private_key, max_products_per_feed, _products_queue,
          _prebuilt_custom_field_elements, query, registered, calls, last>>

client == <<api_key, private_key, max_products_per_feed, _products_queue,
            _prebuilt_custom_field_elements, registered>>

DefaultMaxProductsPerFeed == 200

\* The record of a call: op is the method, key the credential its guard read,
\* raised the exception it ended with ("" when it returned), sent the requests
\* handed to the HTTP library, before the queue when it was called, products
\* the products given (noProducts: None was given), badParams whether the
\* custom_fields_params given lack a weight they need, field and value the
\* arguments of _build_custom_field, built what a builder returned.
Call(op) ==
    [op |-> op, key |-> None, raised |-> "", sent |-> <<>>, before |-> <<>>,
     products |-> <<>>, noProducts |-> FALSE, badParams |-> FALSE,
     field |-> "", value |-> PyNone, built |-> <<>>]

NoQuery == [made |-> FALSE, query_string |-> "", _restrict_by |-> EmptyMap,
            _query_by |-> EmptyMap]

\* Searchanise.__init__ with the default keys (set_keys gives the others): an
\* empty cache and an empty queue; max_products_per_feed is 200 whatever was
\* given.
Init ==
    /\ api_key = None
    /\ private_key = None
    /\ \E given \in {1, DefaultMaxProductsPerFeed} :
          max_products_per_feed = DefaultMaxProductsPerFeed
    /\ _products_queue = <<>>
    /\ _prebuilt_custom_field_elements = EmptyMap
    /\ query = NoQuery
    /\ registered = EmptyMap
    /\ calls = <<>>
    /\ last = Call("__init__")

\* ---------------------------------------------------------------- requests
\* The root tags a well-formed answer of the server can have.
Roots == {"result", "errors"}

\* _parse_response: the exception raised for an answer with this root.
_parse_response(root) == IF root = "errors" THEN "SearchaniseException" ELSE ""

\* _send_request: one request handed to the HTTP library, then the answer
\* parsed.
_send_request(operation, data, root) ==
    [sent |-> <<[operation |-> operation, method |-> "post", data |-> data]>>,
     raised |-> _parse_response(root)]

\* --------------------------------------------------------- client methods
set_keys(a, p) ==
    /\ api_key' = a
    /\ private_key' = p
    /\ last' = Call("set_keys")
    /\ UNCHANGED <<max_products_per_feed, _products_queue,
                   _prebuilt_custom_field_elements, query, registered, calls>>

register(root) ==
    LET r == _send_request("signup", [version |-> "1.2"], root)
    IN /\ last' = [Call("register") EXCEPT !.raised = r.raised, !.sent = r.sent,
                                           !.before = _products_queue]
       /\ UNCHANGED <<client, query, calls>>

\* delete and delete_all, behind requires_private_key.
Guarded(op, data, root) ==
    LET r == IF requires_private_key(private_key)
             THEN _send_request("delete", data, root)
             ELSE [sent |-> <<>>, raised |-> "PSAWException"]
    IN /\ last' = [Call(op) EXCEPT !.key = private_key, !.raised = r.raised,
                                   !.sent = r.sent, !.before = _products_queue]
       /\ UNCHANGED <<client, query, calls>>

delete(product_identifier, root) ==
    Guarded("delete",
            [private_key |-> private_key, id |-> product_identifier, all |-> 0],
            root)

delete_all(root) ==
    Guarded("delete_all", [private_key |-> private_key, id |-> "", all |-> 1],
            root)

\* add: the product appended, without validation.
add(product) ==
    /\ Len(_products_queue) < MaxQueue
    /\ _products_queue' = Append(_products_queue, product)
    /\ last' = [Call("add") EXCEPT !.before = _products_queue,
                                   !.products = <<product>>]
    /\ UNCHANGED <<api_key, private_key, max_products_per_feed,
                   _prebuilt_custom_field_elements, query, registered, calls>>

\* The parameters on record after _prebuild_custom_fields_elements went
\* through `order`: those of the fields it stored.
RECURSIVE RegisteredFrom(_, _, _, _)
RegisteredFrom(reg, custom_fields_params, order, i) ==
    IF i > Len(order) \/ PrebuildRaises(custom_fields_params[order[i]])
    THEN reg
    ELSE RegisteredFrom(
           [n \in DOMAIN reg \cup {order[i]} |->
              IF n = order[i] THEN custom_fields_params[n] ELSE reg[n]],
           custom_fields_params, order, i + 1)

\* The orders in which a dictionary with these keys can yield them.
Orders(keys) ==
    {o \in [1..Cardinality(keys) -> keys] : \A k \in keys : \E i \in DOMAIN o : o[i] = k}

set_custom_fields_params(custom_fields_params, order) ==
    LET r == _prebuild_custom_fields_elements(
               _prebuilt_custom_field_elements, custom_fields_params, order)
    IN /\ _prebuilt_custom_field_elements' = r.cache
       /\ registered' = RegisteredFrom(registered, custom_fields_params, order, 1)
       /\ last' = [Call("set_custom_fields_params") EXCEPT
                     !.raised = r.raised, !.before = _products_queue]
       /\ UNCHANGED <<api_key, private_key, max_products_per_feed,
                      _products_queue, query, calls>>

\* A bug a maintainer could write: the new products put in front of the queue.
EnqueueInFront(queue, products) == products \o queue

\* update, lines 220-222: `if products: for product in products: self.add`.
Enqueue(queue, products) == queue \o products

\* A bug a maintainer could write: the empty-queue test left out.
AlwaysSend(queue) == FALSE

\* update, lines 226-228: `if not self._products_queue: return`.
NothingToSend(queue) == queue = <<>>

\* A bug a maintainer could write: the queue emptied before the answer is
\* looked at.
QueueClearedAnyway(queue, raised) == <<>>

\* A bug a maintainer could write: the queue never emptied.
QueueKept(queue, raised) == queue

\* update, lines 246-247: the queue is emptied once _send_request returned.
QueueAfterSend(queue, raised) == IF raised = "" THEN <<>> ELSE queue

\* update, lines 242-247: the feed sent, and the queue emptied when the
\* answer is not an error.
Sent(queue1, cache, r) ==
    [raised |-> r.raised, sent |-> r.sent,
     queue |-> QueueAfterSend(queue1, r.raised), cache |-> cache]

\* update, lines 239-240: the entries built, or the exception of the first
\* product that cannot be built.
SendFeed(queue1, key, feed, root) ==
    IF feed.raised # ""
    THEN [raised |-> feed.raised, sent |-> <<>>, queue |-> queue1,
          cache |-> feed.cache]
    ELSE Sent(queue1, feed.cache,
              _send_request("update",
                            [private_key |-> key, feed |-> feed.entries], root))

\* update, lines 223-228, once the products are queued.
SendQueue(queue1, key, pre, root) ==
    IF pre.raised # ""
    THEN [raised |-> pre.raised, sent |-> <<>>, queue |-> queue1,
          cache |-> pre.cache]
    ELSE IF NothingToSend(queue1)
    THEN [raised |-> "", sent |-> <<>>, queue |-> queue1, cache |-> pre.cache]
    ELSE SendFeed(queue1, key, BuildFeed(pre.cache, queue1, 1, <<>>), root)

\* The body of update behind its guard: what it raises, what it sends and
\* the queue and the cache it leaves.  products is the list given (empty for
\* None), custom_fields_params the dictionary given (empty for None).
UpdateBody(queue, cache, key, products, custom_fields_params, order, root) ==
    SendQueue(Enqueue(queue, products), key,
              IF DOMAIN custom_fields_params # {}
              THEN _prebuild_custom_fields_elements(
                     cache, custom_fields_params, order)
              ELSE [raised |-> "", cache |-> cache],
              root)

\* update behind requires_private_key.
GuardedUpdate(queue, cache, key, products, custom_fields_params, order, root) ==
    IF requires_private_key(key)
    THEN UpdateBody(queue, cache, key, products, custom_fields_params, order,
                    root)
    ELSE [raised |-> "PSAWException", sent |-> <<>>, queue |-> queue,
          cache |-> cache]

UpdateDone(r, products, noProducts, custom_fields_params) ==
    /\ _products_queue' = r.queue
    /\ _prebuilt_custom_field_elements' = r.cache
    /\ last' = [Call("update") EXCEPT
                  !.key = private_key, !.raised = r.raised, !.sent = r.sent,
                  !.before = _products_queue, !.products = products,
                  !.noProducts = noProducts,
                  !.badParams = \E n \in DOMAIN custom_fields_params :
                                   PrebuildRaises(custom_fields_params[n])]

update(products, noProducts, custom_fields_params, order, root) ==
    /\ Len(_products_queue) + Len(products) <= MaxQueue
    /\ UpdateDone(GuardedUpdate(_products_queue, _prebuilt_custom_field_elements,
                                private_key, products, custom_fields_params,
                                order, root),
                  products, noProducts, custom_fields_params)
    /\ registered' =
         IF requires_private_key(private_key)
         THEN RegisteredFrom(registered, custom_fields_params, order, 1)
         ELSE registered
    /\ UNCHANGED <<api_key, private_key, max_products_per_feed, query, calls>>

\* ----------------------------------------------------------------- queries
\* A bug a maintainer could write: a filter already set is not overwritten.
MergeKeepFirst(mapping, kwargs) ==
    [a \in DOMAIN mapping \cup DOMAIN kwargs |->
       IF a \in DOMAIN mapping THEN mapping[a] ELSE kwargs[a]]

\* `for attribute, value in kwargs.items(): mapping[attribute] = value`, and
\* dict.update.
Merge(mapping, kwargs) ==
    [a \in DOMAIN mapping \cup DOMAIN kwargs |->
       IF a \in DOMAIN kwargs THEN kwargs[a] ELSE mapping[a]]

\* '{}[{}]'.format(name, a)
ParamName(name, a) == name \o "[" \o a \o "]"

\* format_params of _get_query_params.
format_params(p_dict, name) ==
    [k \in {ParamName(name, a) : a \in DOMAIN p_dict} |->
       p_dict[CHOOSE a \in DOMAIN p_dict : ParamName(name, a) = k]]

\* _get_query_params, with the key the api_key property reads.
_get_query_params(q, key) ==
    LET conditions == Merge(Merge(EmptyMap, format_params(q._restrict_by, "restrictBy")),
                            format_params(q._query_by, "queryBy"))
        with_q == Merge(conditions, "q" :> q.query_string)
    IN Merge(with_q, "api_key" :> key)

\* Searchanise.query: a new query bound to the client.
MakeQuery(query_string) ==
    /\ query' = [NoQuery EXCEPT !.made = TRUE, !.query_string = query_string]
    /\ calls' = <<>>
    /\ last' = Call("query")
    /\ UNCHANGED client

restrict_by(kwargs) ==
    /\ query.made
    /\ Len(calls) < MaxCalls
    /\ query' = [query EXCEPT !._restrict_by = Merge(@, kwargs)]
    /\ calls' = Append(calls, [method |-> "restrict_by", kwargs |-> kwargs])
    /\ last' = Call("restrict_by")
    /\ UNCHANGED client

query_by(kwargs) ==
    /\ query.made
    /\ Len(calls) < MaxCalls
    /\ query' = [query EXCEPT !._query_by = Merge(@, kwargs)]
    /\ calls' = Append(calls, [method |-> "query_by", kwargs |-> kwargs])
    /\ last' = Call("query_by")
    /\ UNCHANGED client

\* execute, behind requires_api_key; the key is the client's at the call.
execute ==
    /\ query.made
    /\ last' = IF requires_api_key(api_key)
               THEN [Call("execute") EXCEPT
                       !.key = api_key,
                       !.sent = <<[operation |-> "search", method |-> "get",
                                   data |-> _get_query_params(query, api_key)]>>]
               ELSE [Call("execute") EXCEPT !.key = api_key,
                                            !.raised = "PSAWException"]
    /\ UNCHANGED <<client, query, calls>>

\* ---------------------------------------------------------- builder calls
\* _build_product_entry and _build_custom_field called on their own.
BuildProductEntry(product_dict) ==
    LET r == _build_product_entry(_prebuilt_custom_field_elements, product_dict)
    IN /\ _prebuilt_custom_field_elements' = r.cache
       /\ last' = [Call("_build_product_entry") EXCEPT
                     !.raised = r.raised, !.products = <<product_dict>>,
                     !.built = r.entries]
       /\ UNCHANGED <<api_key, private_key, max_products_per_feed,
                      _products_queue, query, registered, calls>>

BuildCustomField(custom_field_name, custom_field_value) ==
    LET r == _build_custom_field(_prebuilt_custom_field_elements,
                                 custom_field_name, custom_field_value)
    IN /\ _prebuilt_custom_field_elements' = r.cache
       /\ last' = [Call("_build_custom_field") EXCEPT
                     !.field = custom_field_name, !.value = custom_field_value,
                     !.built = <<r.el>>]
       /\ UNCHANGED <<api_key, private_key, max_products_per_feed,
                      _products_queue, query, registered, calls>>

\* ------------------------------------------------------------------ inputs
\* The pairs of keys given to set_keys: each key is None, empty and set in
\* turn.
KeyPairs == {<<None, None>>, <<"", "priv">>, <<"api", "">>, <<"api", "priv">>}

CustomFields == {"tags", "color"}

\* Parameters of a field: searched with a weight and typed, not searched,
\* typed only, and searched without the weight the docstring asks for.
Searched == FieldParams({"text_search", "weight", "type"}, TRUE, 3, "text")

NotSearched == FieldParams({"text_search", "weight"}, FALSE, 5, "")

Typed == FieldParams({"type"}, FALSE, 0, "int")

NoWeight == FieldParams({"text_search"}, TRUE, 0, "")

ParamDicts ==
    {"tags" :> Searched, "tags" :> NotSearched,
     ("color" :> Typed) @@ ("tags" :> NoWeight)}

RequiredPart ==
    [f \in REQUIRED_ENTRY_FIELDS |->
       CASE f = "id" -> PyNum(7)
         [] f = "title" -> PyText("shoe")
         [] f = "summary" -> PyText("")
         [] OTHER -> PyText("http://shop/7")]

Restrict(f, keys) == [k \in keys |-> f[k]]

\* The products queued in the client's runs: two complete ones that share a
\* custom field, and one without a link.
Good1 == RequiredPart @@ ("tags" :> PyList(<<PyText("a"), PyText("b")>>))

Good2 ==
    RequiredPart @@ ("tags" :> PyList(<<PyText("c")>>))
                 @@ ("color" :> PyText("red")) @@ ("price" :> PyNum(10))

NoLink ==
    Restrict(RequiredPart, {"id", "title", "summary"})
      @@ ("tags" :> PyList(<<PyText("z")>>))

Products == {Good1, Good2, NoLink}

ProductLists ==
    {<<>>, <<Good1>>, <<NoLink>>, <<Good2, Good1>>}

\* ------------------------------------------------------------ client runs
Next ==
    \/ \E k \in KeyPairs : set_keys(k[1], k[2])
    \/ \E root \in Roots : register(root)
    \/ \E root \in Roots : delete("7", root)
    \/ \E root \in Roots : delete_all(root)
    \/ \E product \in Products : add(product)
    \/ \E d \in ParamDicts : \E order \in Orders(DOMAIN d) :
          set_custom_fields_params(d, order)
    \/ \E products \in ProductLists, d \in ParamDicts \cup {EmptyMap},
          root \in Roots :
          \E order \in Orders(DOMAIN d), noProducts \in BOOLEAN :
             /\ noProducts => products = <<>>
             /\ update(products, noProducts, d, order, root)
    \/ MakeQuery("shoes")
    \/ execute

Spec == Init /\ [][Next]_vars

\* ------------------------------------------------------------- query runs
Kwargs ==
    {EmptyMap, "color" :> "red", "color" :> "blue",
     ("size" :> "m") @@ ("color" :> "red")}

NextQuery ==
    \/ \E k \in {<<"", "priv">>, <<"api", "priv">>} : set_keys(k[1], k[2])
    \/ MakeQuery("shoes")
    \/ \E kwargs \in Kwargs : restrict_by(kwargs)
    \/ \E kwargs \in Kwargs : query_by(kwargs)
    \/ execute

SpecQuery == Init /\ [][NextQuery]_vars

\* ----------------------------------------------------------- builder runs
RECURSIVE SeqsUpTo(_, _)
SeqsUpTo(S, n) ==
    IF n = 0 THEN {<<>>}
    ELSE SeqsUpTo(S, n - 1)
           \cup {Append(q, x) : q \in {r \in SeqsUpTo(S, n - 1) : Len(r) = n - 1},
                                x \in S}

Scalars ==
    {PyNone, PyBool(FALSE), PyBool(TRUE), PyNum(0), PyNum(12), PyText(""),
     PyText("a"), PyText("bc")}

ListItems == {PyNone, PyNum(0), PyText("a"), PyText("b")}

\* The descriptor of the _build_product_entry docstring, and a second one.
DocDescriptor ==
    PyDict([type |-> "int", values |-> <<PyNum(1), PyNum(2)>>,
            text_search |-> TRUE, weight |-> 12])

Descriptors ==
    {DocDescriptor,
     PyDict([type |-> "text", values |-> <<PyText("a")>>, text_search |-> FALSE,
             weight |-> 0])}

AllValues ==
    Scalars \cup {PyList(items) : items \in SeqsUpTo(ListItems, MaxItems)}
            \cup Descriptors

\* Every record over the required fields, one optional field and two custom
\* fields: each subset of the keys, with a custom field of each shape.
AllKeys == REQUIRED_ENTRY_FIELDS \cup {"price", "tags", "color"}

FullRecord(tags) ==
    RequiredPart @@ ("price" :> PyNum(10)) @@ ("tags" :> tags)
                 @@ ("color" :> PyText("red"))

AllRecords ==
    {Restrict(FullRecord(tags), keys) :
       tags \in {PyList(<<PyText("a"), PyText("b")>>), PyText("a"), PyNone,
                 DocDescriptor},
       keys \in SUBSET AllKeys}

NextEntry ==
    \/ \E d \in ParamDicts : \E order \in Orders(DOMAIN d) :
          set_custom_fields_params(d, order)
    \/ \E product_dict \in AllRecords : BuildProductEntry(product_dict)
    \/ \E name \in CustomFields, value \in AllValues :
          BuildCustomField(name, value)

SpecEntry == Init /\ [][NextEntry]_vars

\* -------------------------------------------------------------- properties
Unset(key) == key = None \/ key = ""

\* C1: delete, delete_all and update called while the private key is unset
\* (None or empty), and execute called while the API key is unset, raise
\* PSAWException and hand no request to the HTTP library, whatever the
\* arguments and the queue.  (The call leaves the keys as they were, so the
\* keys of the state are the keys the call saw.)
C1_GuardsFailFast ==
    /\ (last.op \in {"delete", "delete_all", "update"} /\ Unset(private_key))
          => (last.raised = "PSAWException" /\ last.sent = <<>>)
    /\ (last.op = "execute" /\ Unset(api_key))
          => (last.raised = "PSAWException" /\ last.sent = <<>>)

\* An update given products, on a queue that holds some, refused for an
\* empty private key.
C1_Witness ==
    /\ last.op = "update"
    /\ private_key = ""
    /\ last.before # <<>>
    /\ last.products # <<>>
    /\ last.raised = "PSAWException"

\* C2: after an update that returned (private key set, every queued record
\* complete, answer not `errors`) the product queue is empty, however many
\* records were queued before and however many were given to update.
C2_QueueEmptyAfterUpdate ==
    (last.op = "update" /\ last.raised = "") => _products_queue = <<>>

\* An update that sent records queued before together with records given.
C2_Witness ==
    /\ last.op = "update"
    /\ last.raised = ""
    /\ last.sent # <<>>
    /\ last.before # <<>>
    /\ last.products # <<>>
    /\ _products_queue = <<>>

\* C3: update called with a private key set, an empty queue and no products
\* (None or an empty list) hands no request to the HTTP library, and returns
\* normally whenever the custom_fields_params given are well formed.
C3_EmptyUpdateSendsNothing ==
    (/\ last.op = "update"
     /\ ~Unset(private_key)
     /\ last.before = <<>>
     /\ last.products = <<>>)
      => (last.sent = <<>> /\ (~last.badParams => last.raised = ""))

\* update([]) on an empty queue of a client that has templates cached.
C3_Witness ==
    /\ last.op = "update"
    /\ ~Unset(private_key)
    /\ last.before = <<>>
    /\ last.products = <<>>
    /\ ~last.noProducts
    /\ DOMAIN _prebuilt_custom_field_elements # {}
    /\ last.raised = ""
    /\ last.sent = <<>>

\* C4: building the entry of a record that lacks one of id, title, summary,
\* link raises PSAWException, whatever optional and custom fields it has; a
\* record with all four does not fail.
C4_RequiredFields ==
    last.op = "_build_product_entry" =>
      IF {"id", "title", "summary", "link"} \subseteq DOMAIN last.products[1]
      THEN last.raised = "" /\ Len(last.built) = 1
      ELSE last.raised = "PSAWException" /\ last.built = <<>>

\* A record with three required fields, an optional and two custom fields.
C4_Witness ==
    /\ last.op = "_build_product_entry"
    /\ DOMAIN last.products[1] = {"id", "title", "summary", "price", "tags", "color"}
    /\ last.raised = "PSAWException"

\* The text an item of a multi-valued field is expected to give.
ItemText(v) ==
    CASE v.kind = "text" -> v.s
      [] v.kind = "num" -> ToString(v.n)
      [] OTHER -> ""

\* Whether the entry is the entry of this record: the same standard and
\* custom fields, and for every custom field the record's own values.
EntryOfRecord(entry, record) ==
    /\ DOMAIN entry.std = DOMAIN record \cap STANDARD_ENTRY_FIELDS
    /\ DOMAIN entry.custom = DOMAIN record \ STANDARD_ENTRY_FIELDS
    /\ \A f \in DOMAIN entry.custom :
         IF record[f].kind = "list"
         THEN /\ Len(entry.custom[f].children) = Len(record[f].items)
              /\ \A i \in DOMAIN record[f].items :
                   entry.custom[f].children[i].s = ItemText(record[f].items[i])
         ELSE /\ entry.custom[f].children = <<>>
              /\ Len(entry.custom[f].text) = 1
              /\ entry.custom[f].text[1].s = ItemText(record[f])

\* C5: an update that reaches the network sends exactly one request, whose
\* feed has exactly one entry per queued record in enqueue order: the records
\* queued before the call, then the records given to the call.  The whole
\* queue goes in that request whatever max_products_per_feed was given.
C5_OneRequestWholeQueue ==
    (last.op = "update" /\ last.sent # <<>>) =>
      /\ Len(last.sent) = 1
      /\ last.sent[1].operation = "update"
      /\ Len(last.sent[1].data.feed) = Len(last.before) + Len(last.products)
      /\ \A i \in DOMAIN last.sent[1].data.feed :
           EntryOfRecord(last.sent[1].data.feed[i],
                         (last.before \o last.products)[i])

\* One record queued by add and a different one given to update, sent
\* together.
C5_Witness ==
    /\ last.op = "update"
    /\ Len(last.sent) = 1
    /\ Len(last.before) = 1
    /\ Len(last.products) >= 1
    /\ last.before[1] # last.products[1]
    /\ Len(last.sent[1].data.feed) >= 2

\* C6: the element of a custom field follows the shape of the value: a list
\* of n scalars gives n `value` children with the items' texts in order and
\* no text; a text or a number gives no children and one text; None and
\* False give no children and the empty text.
C6_CustomFieldShape ==
    last.op = "_build_custom_field" =>
      CASE last.value.kind = "list" ->
             /\ Len(last.built[1].children) = Len(last.value.items)
             /\ \A i \in DOMAIN last.value.items :
                  last.built[1].children[i].s = ItemText(last.value.items[i])
             /\ last.built[1].text = <<>>
        [] last.value.kind \in {"text", "num"} ->
             /\ last.built[1].children = <<>>
             /\ Len(last.built[1].text) = 1
             /\ last.built[1].text[1].s = ItemText(last.value)
        [] last.value.kind = "None" \/ last.value = PyBool(FALSE) ->
             /\ last.built[1].children = <<>>
             /\ Len(last.built[1].text) = 1
             /\ last.built[1].text[1].s = ""
        [] OTHER -> TRUE

\* A list of two items built for a field whose template carries attributes.
C6_Witness ==
    /\ last.op = "_build_custom_field"
    /\ last.value = PyList(<<PyText("a"), PyNum(0)>>)
    /\ "weight" \in DOMAIN last.built[1].attrs
    /\ Len(last.built[1].children) = 2

\* The attributes passed to the method in the calls made on the query, and
\* the value the latest of those calls gave an attribute.
AttrsPassed(method) ==
    UNION {DOMAIN calls[i].kwargs : i \in {j \in DOMAIN calls : calls[j].method = method}}

LatestValue(method, a) ==
    LET naming == {i \in DOMAIN calls :
                     calls[i].method = method /\ a \in DOMAIN calls[i].kwargs}
        latest == CHOOSE i \in naming : \A j \in naming : j <= i
    IN calls[latest].kwargs[a]

\* C7: after any sequence of restrict_by and query_by calls on a query, the
\* parameter set holds restrictBy[a]=v exactly for the attributes a ever
\* passed to restrict_by, v being the value of the latest restrict_by call
\* naming a, queryBy[a]=v likewise for query_by, q and api_key, and nothing
\* else; so neither method changes the other's mapping.
C7_LastWriteWins ==
    query.made =>
      /\ DOMAIN _get_query_params(query, api_key) =
           {"restrictBy[" \o a \o "]" : a \in AttrsPassed("restrict_by")}
             \cup {"queryBy[" \o a \o "]" : a \in AttrsPassed("query_by")}
             \cup {"q", "api_key"}
      /\ \A a \in AttrsPassed("restrict_by") :
           _get_query_params(query, api_key)["restrictBy[" \o a \o "]"] =
             LatestValue("restrict_by", a)
      /\ \A a \in AttrsPassed("query_by") :
           _get_query_params(query, api_key)["queryBy[" \o a \o "]"] =
             LatestValue("query_by", a)
      /\ _get_query_params(query, api_key)["q"] = query.query_string
      /\ _get_query_params(query, api_key)["api_key"] = api_key
      /\ DOMAIN query._restrict_by = AttrsPassed("restrict_by")
      /\ DOMAIN query._query_by = AttrsPassed("query_by")

\* A query executed after color was restricted twice and queried once.
C7_Witness ==
    /\ last.op = "execute"
    /\ Len(last.sent) = 1
    /\ Len(calls) = 3
    /\ calls[1] = [method |-> "restrict_by", kwargs |-> ("size" :> "m") @@ ("color" :> "red")]
    /\ calls[2] = [method |-> "query_by", kwargs |-> "color" :> "red"]
    /\ calls[3] = [method |-> "restrict_by", kwargs |-> "color" :> "blue"]
    /\ last.sent[1].data["restrictBy[color]"] = "blue"
    /\ last.sent[1].data["queryBy[color]"] = "red"

\* C8: a custom field given as a descriptor dictionary {type, values,
\* text_search, weight} gets one `value` child per item of `values` and the
\* descriptor's type, text_search and weight as attributes.
C8_DescriptorField ==
    (last.op = "_build_custom_field" /\ last.value.kind = "dict") =>
      /\ Len(last.built[1].children) = Len(last.value.desc.values)
      /\ \A i \in DOMAIN last.value.desc.values :
           last.built[1].children[i].s = ItemText(last.value.desc.values[i])
      /\ "type" \in DOMAIN last.built[1].attrs
      /\ last.built[1].attrs["type"] = last.value.desc.type
      /\ last.value.desc.text_search =>
           /\ "weight" \in DOMAIN last.built[1].attrs
           /\ last.built[1].attrs["weight"] = ToString(last.value.desc.weight)

\* The parameters on record for a field, none when it was never registered.
RegisteredFor(f) == IF f \in DOMAIN registered THEN registered[f] ELSE EmptyParams

\* Whether the attributes are those the parameters ask for.
CarriesParams(attrs, f, params) ==
    /\ attrs["name"] = f
    /\ IF "text_search" \in params.has /\ params.text_search
       THEN /\ {"text_search", "weight"} \subseteq DOMAIN attrs
            /\ attrs["text_search"] = "Y"
            /\ attrs["weight"] = ToString(params.weight)
       ELSE {"text_search", "weight"} \cap DOMAIN attrs = {}
    /\ IF "type" \in params.has /\ params.type # ""
       THEN "type" \in DOMAIN attrs /\ attrs["type"] = params.type
       ELSE "type" \notin DOMAIN attrs

\* C9: entry building never alters the cached templates: after any sequence
\* of add, set_custom_fields_params and update calls every cached template
\* has no text and no `value` child, and every element built for a field
\* carries the attributes registered last for the field (only `name` when
\* none were) and the values of its own product alone.
C9_TemplatesUntouched ==
    /\ \A f \in DOMAIN _prebuilt_custom_field_elements :
         /\ _prebuilt_custom_field_elements[f].text = <<>>
         /\ _prebuilt_custom_field_elements[f].children = <<>>
    /\ (last.op = "update" /\ last.sent # <<>>) =>
         \A i \in DOMAIN last.sent[1].data.feed :
           /\ EntryOfRecord(last.sent[1].data.feed[i],
                            (last.before \o last.products)[i])
           /\ \A f \in DOMAIN last.sent[1].data.feed[i].custom :
                CarriesParams(last.sent[1].data.feed[i].custom[f].attrs, f,
                              RegisteredFor(f))

\* Two products with the same multi-valued field sent in one feed, the field
\* registered as searched.
C9_Witness ==
    /\ last.op = "update"
    /\ Len(last.sent) = 1
    /\ Len(last.sent[1].data.feed) = 2
    /\ \A i \in 1..2 : "tags" \in DOMAIN last.sent[1].data.feed[i].custom
    /\ last.sent[1].data.feed[1].custom["tags"].children
         # last.sent[1].data.feed[2].custom["tags"].children
    /\ "tags" \in DOMAIN registered
    /\ registered["tags"] = Searched
    /\ "color" \notin DOMAIN registered
    /\ "color" \in DOMAIN _prebuilt_custom_field_elements

\* Whether a record of the queue lacks a required field.
HasIncomplete(queue) ==
    \E i \in DOMAIN queue : ~({"id", "title", "summary", "link"} \subseteq DOMAIN queue[i])

\* What the state after an update that raised behind the private-key check
\* must be: the queue holds what it held followed by what was given, and an
\* incomplete record makes the update raise without a request.
C10_AfterUpdate ==
    (last.op = "update" /\ ~Unset(private_key)) =>
      /\ last.raised # "" => _products_queue = last.before \o last.products
      /\ last.raised = "PSAWException" => last.sent = <<>>
      /\ HasIncomplete(last.before \o last.products)
           => (last.raised # "" /\ last.sent = <<>>)

\* C10: an update that raises behind the private-key check, for a record
\* lacking a required field (before any request) or for an `errors` answer,
\* drops no record: the queue holds what it held before followed by the
\* records given, in order.  So an incomplete record stays queued, and every
\* later update fails without a request.
C10_FailedUpdateKeepsQueue ==
    /\ []C10_AfterUpdate
    /\ [][HasIncomplete(_products_queue) => HasIncomplete(_products_queue')]_vars

\* An update refused by the server with records queued before and given.
C10_Witness ==
    /\ last.op = "update"
    /\ last.raised = "SearchaniseException"
    /\ Len(last.before) = 1
    /\ Len(last.products) = 1
    /\ last.before # last.products
    /\ _products_queue = last.before \o last.products

====
